---------------------------- MODULE Spec2Model ----------------------------
(***************************************************************************)
(* A model of the gate-level simulator core of hack-simulator-v2:          *)
(*   - word.Register    (src/unnamed/part_000)                             *)
(*   - bit.Mux          (src/components/combinational/bit/mux.go)          *)
(*   - components.ALU   (src/components/alu.go)                            *)
(* The one-bit storage cell bit.Bit, the primitive gates Not/And/Or, the   *)
(* 16-wide gates and util.GetBoolFromUint16 are not among the source files;*)
(* they are modelled from the specification text and marked so below.      *)
(***************************************************************************)
EXTENDS Integers, Sequences, FiniteSets, TLC

\* ------------------------------------------------------------------ state
\* word.Register
VARIABLES
  bits,      \* reg.bits: lane -> Bit
  regPc,     \* position of the Register.Update call: idle, collect, forward, returned
  waiting,   \* lanes whose goroutine was started and has not yet replied on reg.c
  outVal,    \* Update's local outVal
  nrecv,     \* Update's collect-loop counter i (line 31)
  args,      \* arguments of the current (or last) Update call
  regRet,    \* the word the last Update call returned, NoWord before any call
  down,      \* what the last Update call delivered on the downstream channel c
  pendDown,  \* the message Update is blocked sending on c, or NoMsg
  got,       \* got[i]: how many replies tagged i the collect loop has received
  hist       \* the last three operations on the register, oldest first

\* components.ALU
VARIABLES
  alu,       \* the ALU's stored inputs x, y, zx, nx, zy, ny, f, no
  aluRet,    \* what the last ALU.Update returned, NoRet before any call
  aluIn,     \* the inputs the next full call supplies
  aluPc,     \* position of the ALU.Update call: idle, loop
  nopts,     \* how many options the current (or last) call has applied
  given      \* given[t]: the value the most recent call naming t gave it

\* two concurrent ALU.Update calls
VARIABLES
  rin,        \* rin[c]: the eight inputs caller c supplies
  rpc,        \* rpc[c]: caller c's position in ALU.Update
  rloc,       \* rloc[c]: the stored inputs caller c's pipeline has read so far
  rret,       \* rret[c]: what caller c's call returned
  overlapped  \* whether the two calls were ever in progress at the same time

\* one Mux
VARIABLES
  muxIn,     \* the arguments of the last Mux.Update call
  muxVal,    \* what it returned
  muxSent    \* what it sent on c: NoMsg when c was nil

regVars ==
  << bits, regPc, waiting, outVal, nrecv, args, regRet, down, pendDown, got,
     hist >>
aluVars == << alu, aluRet, aluIn, aluPc, nopts, given >>
raceVars == << rin, rpc, rloc, rret, overlapped >>
muxVars == << muxIn, muxVal, muxSent >>

vars == << regVars, aluVars, raceVars, muxVars >>

otherThanReg == << aluVars, raceVars, muxVars >>
otherThanAlu == << regVars, raceVars, muxVars >>
otherThanRace == << regVars, aluRet, aluIn, aluPc, nopts, given, muxVars >>
otherThanMux == << regVars, aluVars, raceVars >>

\* ------------------------------------------------------------------ bounds
\* Number of sample words the register specifications draw inputs from.
NumWords == 3
\* Number of calls the goroutine-level register specification chooses from.
NumFanCases == 3
\* Largest slot index a caller passes with a downstream channel.
MaxIdx == 1
\* Number of sample words the ALU's x and y are drawn from.
NumAluWords == 8
\* Number of sample words given to x and y by partial ALU calls.
NumHeldWords == 2
\* Longest option list of a partial ALU call.
MaxOpts == 2
\* Number of input sets each of two concurrent ALU callers chooses from.
NumRaceInputs == 3

\* ------------------------------------------------------- program constants
\* A Register has 16 Bits; a word is 16 bits wide.
WordSize == 16

Lanes == 0 .. (WordSize - 1)
Modulus == 2 ^ WordSize

\* Sample 16-bit words: 0x7FFF, 0x0001, 0x0000, 0xFFFF, 0x8000, 0x5555,
\* 0xAAAA, 0x00FF, 0x1234, 0xFF00, 0x0002, 0xFFFE.
WordSamples ==
  << 32767, 1, 0, 65535, 32768, 21845, 43690, 255, 4660, 65280, 2, 65534 >>

\* Words written to the register: 0xA5C3, 0xFFFF, 0x0000, 0x7FFF, 0x0001.
RegSamples == << 42435, 65535, 0, 32767, 1 >>

Words == { RegSamples[i] : i \in 1 .. NumWords }

\* ------------------------------------------------------------ bit helpers
\* util.GetBoolFromUint16(in, i): bit i of the word, bit 0 least significant.
GetBoolFromUint16(w, i) == ((w \div (2 ^ i)) % 2) = 1

\* The word whose bit i is b[i].
RECURSIVE SumBits(_, _)
SumBits(b, n) ==
  IF n = 0 THEN 0
  ELSE (IF b[n - 1] THEN 2 ^ (n - 1) ELSE 0) + SumBits(b, n - 1)

FromBits(b) == SumBits(b, WordSize)

ToBits(w) == [i \in Lanes |-> GetBoolFromUint16(w, i)]

\* ------------------------------------------------------- primitive gates
Not(a) == ~a
And(a, b) == a /\ b
Or(a, b) == a \/ b

\* ---------------------------------------------------------------- bit.Mux
\* A mux whose second AND gate is wired to a instead of b.
MuxUpdateWrongWire(a, b, sel) ==
  LET notSel == Not(sel)
      aSel   == And(a, notSel)
      bSel   == And(sel, a)
  IN  Or(aSel, bSel)

\* Mux.Update: notSel, aSel, bSel, val.
MuxUpdate(a, b, sel) ==
  LET notSel == Not(sel)
      aSel   == And(a, notSel)
      bSel   == And(sel, b)
  IN  Or(aSel, bSel)

\* ---------------------------------------------------------------- bit.Bit
\* The clocked one-bit cell: a committed value and a staged one.
NewBit == [current |-> FALSE, pending |-> FALSE]

\* Bit.Update(in, load): stages load ? in : current, leaves current alone.
BitUpdate(b, in, load) ==
  [current |-> b.current, pending |-> MuxUpdate(b.current, in, load)]

\* The value Bit.Update replies with (and returns): the committed value.
BitReply(b) == b.current

\* Bit.Tick(): commits the staged value.
BitTick(b) == [current |-> b.pending, pending |-> b.pending]

\* ----------------------------------------------------------- word.Register

NoWord == Modulus
NoMsg == << >>
NoArgs == [in |-> 0, load |-> FALSE, c |-> FALSE, idx |-> 0]

\* NewRegister(): 16 fresh Bits and an unbuffered channel.
NewRegister == [i \in Lanes |-> NewBit]

\* The word held by the committed values of the bits.
CurrentWord(bs) == FromBits([i \in Lanes |-> bs[i].current])
PendingWord(bs) == FromBits([i \in Lanes |-> bs[i].pending])

\* outVal |= 1 << uint16(idx), kept to 16 bits.
SetBit(w, idx) ==
  IF GetBoolFromUint16(w, idx) THEN w ELSE (w + 2 ^ idx) % Modulus

\* A lane started with the bit of the wrong end of the word.
LaneInputMirrored(in, i) == GetBoolFromUint16(in, (WordSize - 1) - i)

\* Line 28: the input bit handed to lane i.
LaneInput(in, i) == GetBoolFromUint16(in, i)

\* The collect loop using its own counter as the bit position.
ReceiveByCounter(acc, d1, i) == IF d1.Val THEN SetBit(acc, i) ELSE acc

\* Lines 32-36: one iteration of the collect loop, having received d1 as
\* the i-th reply.
Receive(acc, d1, i) == IF d1.Val THEN SetBit(acc, d1.Idx) ELSE acc

\* The reply lane i sends on reg.c: components.OrderedVal{Val, Idx}.
LaneReply(bs, i) == [Val |-> BitReply(bs[i]), Idx |-> i]

\* The collect loop stopping one reply early.
CollectCountShort == WordSize - 1

\* Line 31: the collect loop receives 16 replies.
CollectCount == 16

\* Lines 31-37 for replies arriving in the order given: order[k] is the
\* lane whose reply is received in iteration k-1.
RECURSIVE Collect(_, _, _)
Collect(bs, order, n) ==
  IF n = 0 THEN 0
  ELSE LET acc == Collect(bs, order, n - 1)
           d1  == LaneReply(bs, order[n])
       IN  Receive(acc, d1, n - 1)

\* Arrival orders tried by the whole-call action: k -> (stride*k + shift) mod 16
\* is a permutation of the lanes for every odd stride.
OrderStrides == {1, 7, 15}
Orders ==
  { [k \in 1 .. WordSize |-> (a * (k - 1) + (a \div 2)) % WordSize] :
      a \in OrderStrides }

Keep3(h) == IF Len(h) > 3 THEN Tail(h) ELSE h

UpdateEntry(in, load, ret) == [op |-> "Update", in |-> in, load |-> load, ret |-> ret]
TickEntry == [op |-> "Tick", in |-> 0, load |-> FALSE, ret |-> 0]

\* A Tick that skips the most significant bit.
TickBitsShort(bs) ==
  [i \in Lanes |-> IF i < WordSize - 1 THEN BitTick(bs[i]) ELSE bs[i]]

\* Lines 46-50: every bit ticks.
TickBits(bs) == [i \in Lanes |-> BitTick(bs[i])]

\* Lines 27-29: every lane's Bit.Update, each on its own bit.
StageBits(bs, in, load) ==
  [i \in Lanes |-> BitUpdate(bs[i], LaneInput(in, i), load)]

\* Register.Update(in, load, c, idx) as one step, the 16 replies arriving in
\* some order.  The locals of the call are gone when it has returned.
RegisterUpdate ==
  /\ regPc = "idle"
  /\ \E order \in Orders : regRet' = Collect(bits, order, CollectCount)
  /\ \E in \in Words, load \in BOOLEAN :
       /\ bits' = StageBits(bits, in, load)
       /\ hist' = Keep3(Append(hist, UpdateEntry(in, load, regRet')))
  /\ \E hasC \in BOOLEAN :
       \E idx \in (IF hasC THEN 0 .. MaxIdx ELSE {0}) :
         down' = IF hasC THEN << regRet', idx >> ELSE NoMsg
  /\ UNCHANGED << regPc, waiting, outVal, nrecv, args, pendDown, got >>
  /\ UNCHANGED otherThanReg

\* Register.Tick().
RegisterTick ==
  /\ regPc = "idle"
  /\ bits' = TickBits(bits)
  /\ hist' = Keep3(Append(hist, TickEntry))
  /\ UNCHANGED << regPc, waiting, outVal, nrecv, args, regRet, down, pendDown,
                  got >>
  /\ UNCHANGED otherThanReg

RegInit ==
  /\ bits = NewRegister
  /\ regPc = "idle"
  /\ waiting = {}
  /\ outVal = 0
  /\ nrecv = 0
  /\ args = NoArgs
  /\ regRet = NoWord
  /\ down = NoMsg
  /\ pendDown = NoMsg
  /\ got = [i \in Lanes |-> 0]
  /\ hist = << >>

\* ------------------------------------- Register.Update, goroutine by goroutine
\* The calls tried: what the register holds, and the arguments of Update.
FanCases ==
  << [cur |-> 42435, in |-> 21845, load |-> TRUE,  c |-> FALSE, idx |-> 0],
     [cur |-> 32767, in |-> 1,     load |-> FALSE, c |-> TRUE,  idx |-> 1],
     [cur |-> 65535, in |-> 0,     load |-> TRUE,  c |-> TRUE,  idx |-> 0],
     [cur |-> 0,     in |-> 65535, load |-> FALSE, c |-> FALSE, idx |-> 0] >>

\* A register whose bits hold the word w, nothing new staged.
RegisterHolding(w) ==
  [i \in Lanes |->
     [current |-> GetBoolFromUint16(w, i), pending |-> GetBoolFromUint16(w, i)]]

\* Lines 25-29: outVal := 0 and the 16 goroutines are started, each with
\* its arguments evaluated.
FanCall ==
  \E k \in 1 .. NumFanCases :
    /\ regPc = "idle"
    /\ bits = RegisterHolding(FanCases[k].cur)
    /\ regPc' = "collect"
    /\ args' = [in |-> FanCases[k].in, load |-> FanCases[k].load,
                c |-> FanCases[k].c, idx |-> FanCases[k].idx]
    /\ outVal' = 0
    /\ nrecv' = 0
    /\ waiting' = Lanes
    /\ got' = [i \in Lanes |-> 0]
    /\ UNCHANGED << bits, regRet, down, pendDown, hist >>
    /\ UNCHANGED otherThanReg

\* Lane i's goroutine runs Bit.Update on its own bit and its reply is received
\* by the collect loop (line 32: reg.c is unbuffered, so the send and the
\* receive are one step), then lines 34-36.
FanRecv(i) ==
  /\ regPc = "collect"
  /\ nrecv < CollectCount
  /\ i \in waiting
  /\ LET d1 == LaneReply(bits, i) IN
       /\ outVal' = Receive(outVal, d1, nrecv)
       /\ got' = [got EXCEPT ![d1.Idx] = @ + 1]
  /\ bits' = [bits EXCEPT ![i] = BitUpdate(@, LaneInput(args.in, i), args.load)]
  /\ nrecv' = nrecv + 1
  /\ waiting' = waiting \ {i}
  /\ UNCHANGED << regPc, args, regRet, down, pendDown, hist >>
  /\ UNCHANGED otherThanReg

\* Lines 39-41: with a downstream channel, Update blocks sending on it.
FanForward ==
  /\ regPc = "collect"
  /\ nrecv = CollectCount
  /\ args.c
  /\ regPc' = "forward"
  /\ pendDown' = << outVal, args.idx >>
  /\ UNCHANGED << bits, waiting, outVal, nrecv, args, regRet, down, got, hist >>
  /\ UNCHANGED otherThanReg

\* The caller's receiver takes the word from c; line 43 returns.
FanDownstreamRecv ==
  /\ regPc = "forward"
  /\ down' = pendDown
  /\ pendDown' = NoMsg
  /\ regPc' = "returned"
  /\ regRet' = outVal
  /\ UNCHANGED << bits, waiting, outVal, nrecv, args, got, hist >>
  /\ UNCHANGED otherThanReg

\* Line 43 with c = nil.
FanReturn ==
  /\ regPc = "collect"
  /\ nrecv = CollectCount
  /\ ~args.c
  /\ regPc' = "returned"
  /\ regRet' = outVal
  /\ UNCHANGED << bits, waiting, outVal, nrecv, args, down, pendDown, got, hist >>
  /\ UNCHANGED otherThanReg

FanInit ==
  /\ regPc = "idle"
  /\ \E k \in 1 .. NumFanCases : bits = RegisterHolding(FanCases[k].cur)
  /\ waiting = {}
  /\ outVal = 0
  /\ nrecv = 0
  /\ args = NoArgs
  /\ regRet = NoWord
  /\ down = NoMsg
  /\ pendDown = NoMsg
  /\ got = [i \in Lanes |-> 0]
  /\ hist = << >>

\* ------------------------------------------------------------ signals (Val)
\* components.Val: InvalidVal, SingleChan (one bit) or SixteenChan (a word).
InvalidVal == [kind |-> "invalid", val |-> 0]
SingleChan(b) == [kind |-> "single", val |-> IF b THEN 1 ELSE 0]
SixteenChan(w) == [kind |-> "sixteen", val |-> w]

IsSingle(v) == v.kind = "single"
IsSixteen(v) == v.kind = "sixteen"
BoolOf(v) == v.val = 1

\* ------------------------------------------------------- 16-wide gates
\* Each takes and gives 16-bit words; lane i is bit i.
Not16(a) == FromBits([i \in Lanes |-> Not(GetBoolFromUint16(a, i))])

And16(a, b) ==
  FromBits([i \in Lanes |-> And(GetBoolFromUint16(a, i), GetBoolFromUint16(b, i))])

\* One select line for all 16 lanes: a when sel is false, b when it is true.
Mux16(a, b, sel) ==
  FromBits([i \in Lanes |->
              MuxUpdate(GetBoolFromUint16(a, i), GetBoolFromUint16(b, i), sel)])

Xor(a, b) == Or(And(a, Not(b)), And(Not(a), b))
FullAdderSum(a, b, cin) == Xor(Xor(a, b), cin)
FullAdderCarry(a, b, cin) == Or(And(a, b), And(cin, Xor(a, b)))

\* The carry chain from lane i upwards; the carry out of lane 15 is dropped.
RECURSIVE AddLanes(_, _, _, _)
AddLanes(a, b, i, cin) ==
  IF i = WordSize THEN 0
  ELSE LET ai == GetBoolFromUint16(a, i)
           bi == GetBoolFromUint16(b, i)
       IN  (IF FullAdderSum(ai, bi, cin) THEN 2 ^ i ELSE 0)
             + AddLanes(a, b, i + 1, FullAdderCarry(ai, bi, cin))

Add16(a, b) == AddLanes(a, b, 0, FALSE)

Or8Way(a, b, c, d, e, f, g, h) ==
  Or(Or(Or(a, b), Or(c, d)), Or(Or(e, f), Or(g, h)))

\* ---------------------------------------------------------- components.ALU

AluTargets == {"TargetX", "TargetY", "TargetZeroX", "TargetNegX",
               "TargetZeroY", "TargetNegY", "TargetFunc", "TargetNegOut"}

\* NewALU(): every input starts as InvalidVal.
NewALU ==
  [x |-> InvalidVal, y |-> InvalidVal, zx |-> InvalidVal, nx |-> InvalidVal,
   zy |-> InvalidVal, ny |-> InvalidVal, f |-> InvalidVal, no |-> InvalidVal]

\* The switch with TargetNegY's case storing into nx.
ApplyOptCrossed(a, opt) ==
  CASE opt.target = "TargetX"      -> [a EXCEPT !.x = opt.val]
    [] opt.target = "TargetY"      -> [a EXCEPT !.y = opt.val]
    [] opt.target = "TargetZeroX"  -> [a EXCEPT !.zx = opt.val]
    [] opt.target = "TargetNegX"   -> [a EXCEPT !.nx = opt.val]
    [] opt.target = "TargetZeroY"  -> [a EXCEPT !.zy = opt.val]
    [] opt.target = "TargetNegY"   -> [a EXCEPT !.nx = opt.val]
    [] opt.target = "TargetFunc"   -> [a EXCEPT !.f = opt.val]
    [] opt.target = "TargetNegOut" -> [a EXCEPT !.no = opt.val]
    [] OTHER                       -> a

\* Lines 99-116: the switch on opt.target; any other target is ignored.
ApplyOpt(a, opt) ==
  CASE opt.target = "TargetX"      -> [a EXCEPT !.x = opt.val]
    [] opt.target = "TargetY"      -> [a EXCEPT !.y = opt.val]
    [] opt.target = "TargetZeroX"  -> [a EXCEPT !.zx = opt.val]
    [] opt.target = "TargetNegX"   -> [a EXCEPT !.nx = opt.val]
    [] opt.target = "TargetZeroY"  -> [a EXCEPT !.zy = opt.val]
    [] opt.target = "TargetNegY"   -> [a EXCEPT !.ny = opt.val]
    [] opt.target = "TargetFunc"   -> [a EXCEPT !.f = opt.val]
    [] opt.target = "TargetNegOut" -> [a EXCEPT !.no = opt.val]
    [] OTHER                       -> a

\* Lines 98-117: the options are applied in order.
RECURSIVE ApplyOpts(_, _)
ApplyOpts(a, opts) ==
  IF opts = << >> THEN a
  ELSE ApplyOpts(ApplyOpt(a, Head(opts)), Tail(opts))

\* The zero flag computed from the low byte and bits 8..14 only.
AluFlagsShort(result) ==
  LET b(i) == GetBoolFromUint16(result, i)
      loByteOr == Or8Way(b(0), b(1), b(2), b(3), b(4), b(5), b(6), b(7))
      hiByteOr == Or8Way(b(8), b(9), b(10), b(11), b(12), b(13), b(14), b(14))
      zrFlag == Or(loByteOr, hiByteOr)
  IN  [zr |-> Not(zrFlag), ng |-> b(15)]

\* Lines 176-205: ng is bit 15; zr is NOT of the OR of both bytes' OR8WAY.
AluFlags(result) ==
  LET b(i) == GetBoolFromUint16(result, i)
      loByteOr == Or8Way(b(0), b(1), b(2), b(3), b(4), b(5), b(6), b(7))
      hiByteOr == Or8Way(b(8), b(9), b(10), b(11), b(12), b(13), b(14), b(15))
      zrFlag == Or(loByteOr, hiByteOr)
  IN  [zr |-> Not(zrFlag), ng |-> b(15)]

\* The pipeline with the function mux's inputs swapped.
AluResultSwapped(x, y, zx, nx, zy, ny, f, no) ==
  LET xZero == Mux16(x, 0, zx)
      xPreprocessed == Mux16(xZero, Not16(xZero), nx)
      yZero == Mux16(y, 0, zy)
      yPreprocessed == Mux16(yZero, Not16(yZero), ny)
      xyAdd == Add16(xPreprocessed, yPreprocessed)
      xyAnd == And16(xPreprocessed, yPreprocessed)
      xyF == Mux16(xyAdd, xyAnd, f)
  IN  Mux16(xyF, Not16(xyF), no)

\* Lines 119-174: preprocess x, preprocess y, function, postprocess.
AluResult(x, y, zx, nx, zy, ny, f, no) ==
  LET xZero == Mux16(x, 0, zx)
      xNeg == Not16(xZero)
      xPreprocessed == Mux16(xZero, xNeg, nx)
      yZero == Mux16(y, 0, zy)
      yNeg == Not16(yZero)
      yPreprocessed == Mux16(yZero, yNeg, ny)
      xyAdd == Add16(xPreprocessed, yPreprocessed)
      xyAnd == And16(xPreprocessed, yPreprocessed)
      xyF == Mux16(xyAnd, xyAdd, f)
      negXy == Not16(xyF)
  IN  Mux16(xyF, negXy, no)

NoRet == [status |-> "none", out |-> 0, zr |-> FALSE, ng |-> FALSE]
Failed(e) == [status |-> e, out |-> 0, zr |-> FALSE, ng |-> FALSE]

\* What the gates make of the stored inputs: an Invalid input is
\* UninitializedSignal, a wrong width InvalidWidth, otherwise the pipeline.
AluCompute(a) ==
  LET all == << a.x, a.y, a.zx, a.nx, a.zy, a.ny, a.f, a.no >>
      flags == << a.zx, a.nx, a.zy, a.ny, a.f, a.no >>
  IN  IF \E k \in 1 .. 8 : all[k].kind = "invalid"
        THEN Failed("UninitializedSignal")
      ELSE IF ~IsSixteen(a.x) \/ ~IsSixteen(a.y)
                \/ \E k \in 1 .. 6 : ~IsSingle(flags[k])
        THEN Failed("InvalidWidth")
      ELSE LET result == AluResult(a.x.val, a.y.val, BoolOf(a.zx), BoolOf(a.nx),
                                   BoolOf(a.zy), BoolOf(a.ny), BoolOf(a.f),
                                   BoolOf(a.no))
               fl == AluFlags(result)
           IN  [status |-> "ok", out |-> result, zr |-> fl.zr, ng |-> fl.ng]

\* The option list naming all eight inputs.
FullOpts(in) ==
  << [target |-> "TargetX", val |-> SixteenChan(in.x)],
     [target |-> "TargetY", val |-> SixteenChan(in.y)],
     [target |-> "TargetZeroX", val |-> SingleChan(in.zx)],
     [target |-> "TargetNegX", val |-> SingleChan(in.nx)],
     [target |-> "TargetZeroY", val |-> SingleChan(in.zy)],
     [target |-> "TargetNegY", val |-> SingleChan(in.ny)],
     [target |-> "TargetFunc", val |-> SingleChan(in.f)],
     [target |-> "TargetNegOut", val |-> SingleChan(in.no)] >>

AluWords == { WordSamples[i] : i \in 1 .. NumAluWords }

AluInputs ==
  [x : AluWords, y : AluWords, zx : BOOLEAN, nx : BOOLEAN, zy : BOOLEAN,
   ny : BOOLEAN, f : BOOLEAN, no : BOOLEAN]

NoInput ==
  [x |-> 0, y |-> 0, zx |-> FALSE, nx |-> FALSE, zy |-> FALSE, ny |-> FALSE,
   f |-> FALSE, no |-> FALSE]

NothingGiven == [t \in AluTargets |-> InvalidVal]

\* ALU.Update with an option list naming all eight inputs.
AluFullUpdate ==
  /\ aluRet = NoRet
  /\ LET stored == ApplyOpts(alu, FullOpts(aluIn)) IN
       /\ alu' = stored
       /\ aluRet' = AluCompute(stored)
  /\ UNCHANGED << aluIn, aluPc, nopts, given >>
  /\ UNCHANGED otherThanAlu

\* The values a caller may give a target.
HeldWords == { WordSamples[i] : i \in 1 .. NumHeldWords }

ValuesFor(t) ==
  IF t \in {"TargetX", "TargetY"}
    THEN { SixteenChan(w) : w \in HeldWords }
    ELSE { SingleChan(b) : b \in BOOLEAN }

\* TargetA is a target of other gates; the ALU's switch has no case for it.
Opts ==
  UNION { { [target |-> t, val |-> v] : v \in ValuesFor(t) } : t \in AluTargets }
    \cup { [target |-> "TargetA", val |-> SingleChan(TRUE)] }

\* The stored input a target names.
Stored(a, t) ==
  CASE t = "TargetX"      -> a.x
    [] t = "TargetY"      -> a.y
    [] t = "TargetZeroX"  -> a.zx
    [] t = "TargetNegX"   -> a.nx
    [] t = "TargetZeroY"  -> a.zy
    [] t = "TargetNegY"   -> a.ny
    [] t = "TargetFunc"   -> a.f
    [] t = "TargetNegOut" -> a.no

\* ALU.Update(opts...) is entered.
AluBegin ==
  /\ aluPc = "idle"
  /\ aluPc' = "loop"
  /\ nopts' = 0
  /\ aluRet' = NoRet
  /\ UNCHANGED << alu, aluIn, given >>
  /\ UNCHANGED otherThanAlu

\* Lines 98-117: one iteration of the loop over opts, the next option
\* of the list being opt.
AluOpt ==
  \E opt \in Opts :
    /\ aluPc = "loop"
    /\ nopts < MaxOpts
    /\ alu' = ApplyOpt(alu, opt)
    /\ nopts' = nopts + 1
    /\ given' = IF opt.target \in AluTargets
                  THEN [given EXCEPT ![opt.target] = opt.val]
                  ELSE given
    /\ UNCHANGED << aluPc, aluRet, aluIn >>
    /\ UNCHANGED otherThanAlu

\* Lines 119-207: the list is exhausted; the pipeline runs on the stored
\* inputs and Update returns.
AluFinish ==
  /\ aluPc = "loop"
  /\ aluPc' = "idle"
  /\ aluRet' = AluCompute(alu)
  /\ UNCHANGED << alu, nopts, aluIn, given >>
  /\ UNCHANGED otherThanAlu

AluFnInit ==
  /\ alu = NewALU
  /\ aluRet = NoRet
  /\ aluIn \in AluInputs
  /\ aluPc = "idle"
  /\ nopts = 0
  /\ given = NothingGiven

AluIdle ==
  /\ alu = NewALU
  /\ aluRet = NoRet
  /\ aluIn = NoInput
  /\ aluPc = "idle"
  /\ nopts = 0
  /\ given = NothingGiven

\* ------------------------------------------ two concurrent ALU.Update calls

Callers == {1, 2}

\* Inputs of the callers: 0x7FFF + 0x0001, 0xFFFF & 0x00FF, 0x0001 | 0x0002,
\* 0x8000 - 1.
RaceInputs ==
  << [x |-> 32767, y |-> 1, zx |-> FALSE, nx |-> FALSE, zy |-> FALSE,
      ny |-> FALSE, f |-> TRUE, no |-> FALSE],
     [x |-> 65535, y |-> 255, zx |-> FALSE, nx |-> FALSE, zy |-> FALSE,
      ny |-> FALSE, f |-> FALSE, no |-> FALSE],
     [x |-> 1, y |-> 2, zx |-> FALSE, nx |-> TRUE, zy |-> FALSE,
      ny |-> TRUE, f |-> FALSE, no |-> TRUE],
     [x |-> 32768, y |-> 0, zx |-> FALSE, nx |-> FALSE, zy |-> TRUE,
      ny |-> TRUE, f |-> TRUE, no |-> FALSE] >>

\* Positions of a caller: 0 not yet called; 1..8 about to store option k
\* (lines 98-117); 9..14 about to evaluate zxMux, nxMux, zyMux, nyMux, fMux,
\* noMux with the stored inputs each names (lines 120-174); 15 returned.
LastWrite == 8
Returned == 15

InProgress(p) == p > 0 /\ p < Returned

\* The stored inputs read at a position of the pipeline.
ReadAt(p, a, loc) ==
  CASE p = 9  -> [loc EXCEPT !.x = a.x, !.zx = a.zx]
    [] p = 10 -> [loc EXCEPT !.nx = a.nx]
    [] p = 11 -> [loc EXCEPT !.y = a.y, !.zy = a.zy]
    [] p = 12 -> [loc EXCEPT !.ny = a.ny]
    [] p = 13 -> [loc EXCEPT !.f = a.f]
    [] p = 14 -> [loc EXCEPT !.no = a.no]

\* Caller c enters ALU.Update.
RaceBegin(c) ==
  /\ rpc[c] = 0
  /\ rpc' = [rpc EXCEPT ![c] = 1]
  /\ overlapped' = (overlapped \/ \E d \in Callers \ {c} : InProgress(rpc[d]))
  /\ UNCHANGED << alu, rin, rloc, rret >>
  /\ UNCHANGED otherThanRace

\* Caller c's loop stores its next option into the shared ALU.
RaceWrite(c) ==
  /\ rpc[c] \in 1 .. LastWrite
  /\ alu' = ApplyOpt(alu, FullOpts(rin[c])[rpc[c]])
  /\ rpc' = [rpc EXCEPT ![c] = @ + 1]
  /\ UNCHANGED << rin, rloc, rret, overlapped >>
  /\ UNCHANGED otherThanRace

\* Caller c's pipeline reads stored inputs; after the last read it returns.
RaceRead(c) ==
  /\ rpc[c] > LastWrite
  /\ rpc[c] < Returned
  /\ LET loc == ReadAt(rpc[c], alu, rloc[c]) IN
       /\ rloc' = [rloc EXCEPT ![c] = loc]
       /\ rret' = [rret EXCEPT
                     ![c] = IF rpc[c] + 1 = Returned THEN AluCompute(loc) ELSE @]
  /\ rpc' = [rpc EXCEPT ![c] = @ + 1]
  /\ UNCHANGED << alu, rin, overlapped >>
  /\ UNCHANGED otherThanRace

RaceIdle ==
  /\ rin = [c \in Callers |-> NoInput]
  /\ rpc = [c \in Callers |-> 0]
  /\ rloc = [c \in Callers |-> NewALU]
  /\ rret = [c \in Callers |-> NoRet]
  /\ overlapped = FALSE

RaceInit ==
  /\ rin \in [Callers -> { RaceInputs[k] : k \in 1 .. NumRaceInputs }]
  /\ rpc = [c \in Callers |-> 0]
  /\ rloc = [c \in Callers |-> NewALU]
  /\ rret = [c \in Callers |-> NoRet]
  /\ overlapped = FALSE

\* ------------------------------------------------------- Mux.Update calls

\* Mux.Update(a, b, sel, c, idx): lines 20-32.
MuxCall ==
  \E a \in BOOLEAN, b \in BOOLEAN, sel \in BOOLEAN, hasC \in BOOLEAN :
    \E idx \in (IF hasC THEN Lanes ELSE {0}) :
      LET val == MuxUpdate(a, b, sel) IN
        /\ muxIn' = [a |-> a, b |-> b, sel |-> sel, c |-> hasC, idx |-> idx]
        /\ muxVal' = val
        /\ muxSent' = IF hasC THEN << [Val |-> val, Idx |-> idx] >> ELSE NoMsg
        /\ UNCHANGED otherThanMux

MuxInit ==
  /\ muxIn = [a |-> FALSE, b |-> FALSE, sel |-> FALSE, c |-> FALSE, idx |-> 0]
  /\ muxVal = FALSE
  /\ muxSent = NoMsg

\* ---------------------------------------------------------- specifications
\* A register used by one owner: whole Update and Tick calls.
Init == RegInit /\ AluIdle /\ RaceIdle /\ MuxInit

Next == RegisterUpdate \/ RegisterTick

Spec == Init /\ [][Next]_vars

\* One Register.Update call, goroutine by goroutine.
InitFan == FanInit /\ AluIdle /\ RaceIdle /\ MuxInit

FanNext ==
  \/ FanCall
  \/ \E i \in Lanes : FanRecv(i)
  \/ FanForward
  \/ FanDownstreamRecv
  \/ FanReturn

SpecFan == InitFan /\ [][FanNext]_vars

\* ALU.Update as a function of all eight inputs.
InitAluFn == RegInit /\ AluFnInit /\ RaceIdle /\ MuxInit

AluFnNext == AluFullUpdate

SpecAluFn == InitAluFn /\ [][AluFnNext]_vars

\* A sequence of ALU.Update calls by one caller, each with any option list.
AluNext == AluBegin \/ AluOpt \/ AluFinish

SpecAlu == Init /\ [][AluNext]_vars

\* Two callers of one ALU, their steps interleaved.
InitRace == RegInit /\ AluIdle /\ RaceInit /\ MuxInit

RaceNext == \E c \in Callers : RaceBegin(c) \/ RaceWrite(c) \/ RaceRead(c)

SpecRace == InitRace /\ [][RaceNext]_vars

\* Calls of one Mux.
MuxNext == MuxCall

SpecMux == Init /\ [][MuxNext]_vars

\* ------------------------------------------------------------- properties
Last(h) == h[Len(h)]

\* C1. Register persistence: Update(w, true), then Tick, then
\* Update(v, false) returns w, whatever the register held before and
\* whatever v is.
RegisterPersistence ==
  (/\ Len(hist) = 3
   /\ hist[1].op = "Update" /\ hist[1].load
   /\ hist[2].op = "Tick"
   /\ hist[3].op = "Update" /\ ~hist[3].load)
    => (hist[3].ret = hist[1].in /\ regRet = hist[1].in)

\* The register held another word, 0xFFFF was loaded and read back.
RegisterPersistenceWitness ==
  /\ Len(hist) = 3
  /\ hist[1].op = "Update" /\ hist[1].load /\ hist[1].in = 65535
  /\ hist[1].ret # 65535
  /\ hist[2].op = "Tick"
  /\ hist[3].op = "Update" /\ ~hist[3].load /\ hist[3].in # 65535
  /\ regRet = 65535

\* C2. Update never changes the committed state: Update calls with no Tick
\* between them return the same word, and the word an Update returns is the
\* composition of the bits' current values, which the call leaves as they
\* were.
UpdateIsPureRead ==
  /\ \A k \in 1 .. Len(hist) - 1 :
       (hist[k].op = "Update" /\ hist[k + 1].op = "Update")
         => hist[k].ret = hist[k + 1].ret
  /\ (Len(hist) > 0 /\ Last(hist).op = "Update")
       => (Last(hist).ret = CurrentWord(bits) /\ regRet = CurrentWord(bits))

\* Three Updates in one cycle, with different inputs, a load among them,
\* returned the word the register holds.
UpdateIsPureReadWitness ==
  /\ Len(hist) = 3
  /\ \A k \in 1 .. 3 : hist[k].op = "Update"
  /\ hist[1].load /\ hist[1].in # hist[1].ret
  /\ hist[2].in # hist[1].in
  /\ regRet = 42435
  /\ CurrentWord(bits) = 42435

\* C3. Last write wins: the word a Tick commits is the one staged by the
\* last Update before it: its input if it loaded, else the current word.
LastWriteWins ==
  [][(/\ Len(hist) > 0 /\ Last(hist).op = "Update"
      /\ Len(hist') > 0 /\ Last(hist').op = "Tick")
       => CurrentWord(bits') =
            (IF Last(hist).load THEN Last(hist).in ELSE CurrentWord(bits))]_vars

\* An Update that loaded w was followed by one that did not load, and the
\* Tick left the register with its old word, not w.
LastWriteWinsWitness ==
  /\ Len(hist) = 3
  /\ hist[1].op = "Update" /\ hist[1].load
  /\ hist[2].op = "Update" /\ ~hist[2].load
  /\ hist[3].op = "Tick"
  /\ CurrentWord(bits) = hist[1].ret
  /\ CurrentWord(bits) # hist[1].in
  /\ CurrentWord(bits) # 0

\* The current values of the bits whose replies have been received.
RepliedWord ==
  FromBits([i \in Lanes |-> i \notin waiting /\ bits[i].current])

\* C4. Fan-in order independence: in whatever order the 16 replies arrive,
\* the word collected so far depends only on which replies have arrived,
\* and the word Update returns (and forwards) is the word the bits held.
FanInOrderIndependent ==
  /\ regPc = "collect" => outVal = RepliedWord
  /\ regPc = "returned" => regRet = CurrentWord(bits)
  /\ down # NoMsg => down[1] = CurrentWord(bits)

\* A call on a register holding 0xA5C3 has returned.
FanInOrderIndependentWitness ==
  /\ regPc = "returned"
  /\ nrecv = CollectCount
  /\ regRet = 42435

\* Every reply has been received exactly once and nothing is left behind.
AllReplied ==
  /\ nrecv = CollectCount
  /\ waiting = {}
  /\ \A i \in Lanes : got[i] = 1

\* How many more steps Update takes before it has returned.
StepsLeft ==
  (CollectCount - nrecv)
    + (CASE regPc = "collect" -> (IF args.c THEN 2 ELSE 1)
         [] regPc = "forward" -> 1
         [] OTHER -> 0)

Running == regPc \in {"collect", "forward"}

\* C9. Update returns once all 16 replies have arrived.  A call that has
\* not returned can always take a step, and each step leaves fewer steps to
\* take, so under fair scheduling it returns; it gets past the collect loop
\* only with one reply received for each index, no goroutine still waiting
\* to reply and no reply left on the channel, so a missing reply keeps it
\* from returning.
UpdateReturnsAfterAllReplies ==
  /\ [](Running => ENABLED FanNext)
  /\ [][Running => (StepsLeft' < StepsLeft /\ StepsLeft' >= 0)]_vars
  /\ [](regPc \in {"forward", "returned"} => AllReplied)
  /\ [](regPc = "returned" => (pendDown = NoMsg /\ StepsLeft = 0))

\* A call with a downstream channel has returned, all replies received.
UpdateReturnsWitness ==
  /\ regPc = "returned"
  /\ args.c
  /\ down = << 32767, 1 >>
  /\ AllReplied

\* Bitwise AND of two naturals, by arithmetic.
RECURSIVE BitAndInt(_, _)
BitAndInt(x, y) ==
  IF x = 0 \/ y = 0 THEN 0
  ELSE (x % 2) * (y % 2) + 2 * BitAndInt(x \div 2, y \div 2)

AllOnes == Modulus - 1

\* The documented opcode table (alu.go, lines 69-88).
OpcodeTable ==
  << << 1, 0, 1, 0, 1, 0, "0" >>,   << 1, 1, 1, 1, 1, 1, "1" >>,
     << 1, 1, 1, 0, 1, 0, "-1" >>,  << 0, 0, 1, 1, 0, 0, "x" >>,
     << 1, 1, 0, 0, 0, 0, "y" >>,   << 0, 0, 1, 1, 0, 1, "!x" >>,
     << 1, 1, 0, 0, 0, 1, "!y" >>,  << 0, 0, 1, 1, 1, 1, "-x" >>,
     << 1, 1, 0, 0, 1, 1, "-y" >>,  << 0, 1, 1, 1, 1, 1, "x+1" >>,
     << 1, 1, 0, 1, 1, 1, "y+1" >>, << 0, 0, 1, 1, 1, 0, "x-1" >>,
     << 1, 1, 0, 0, 1, 0, "y-1" >>, << 0, 0, 0, 0, 1, 0, "x+y" >>,
     << 0, 1, 0, 0, 1, 1, "x-y" >>, << 0, 0, 0, 1, 1, 1, "y-x" >>,
     << 0, 0, 0, 0, 0, 0, "x&y" >>, << 0, 1, 0, 1, 0, 1, "x|y" >> >>

\* The documented function of a row, in 16-bit two's complement.
Documented(fn, x, y) ==
  CASE fn = "0"   -> 0
    [] fn = "1"   -> 1
    [] fn = "-1"  -> AllOnes
    [] fn = "x"   -> x
    [] fn = "y"   -> y
    [] fn = "!x"  -> AllOnes - x
    [] fn = "!y"  -> AllOnes - y
    [] fn = "-x"  -> (Modulus - x) % Modulus
    [] fn = "-y"  -> (Modulus - y) % Modulus
    [] fn = "x+1" -> (x + 1) % Modulus
    [] fn = "y+1" -> (y + 1) % Modulus
    [] fn = "x-1" -> (x + Modulus - 1) % Modulus
    [] fn = "y-1" -> (y + Modulus - 1) % Modulus
    [] fn = "x+y" -> (x + y) % Modulus
    [] fn = "x-y" -> (x + Modulus - y) % Modulus
    [] fn = "y-x" -> (y + Modulus - x) % Modulus
    [] fn = "x&y" -> BitAndInt(x, y)
    [] fn = "x|y" -> x + y - BitAndInt(x, y)

FlagBit(b) == IF b THEN 1 ELSE 0

RowMatches(row, in) ==
  /\ row[1] = FlagBit(in.zx) /\ row[2] = FlagBit(in.nx)
  /\ row[3] = FlagBit(in.zy) /\ row[4] = FlagBit(in.ny)
  /\ row[5] = FlagBit(in.f)  /\ row[6] = FlagBit(in.no)

\* C5. Opcode table: for each of the 18 documented rows and all x, y, the
\* first value ALU.Update returns is the row's documented function of x and
\* y in 16-bit two's complement, wrapping modulo 2^16.
OpcodeTableHolds ==
  aluRet # NoRet =>
    /\ aluRet.status = "ok"
    /\ \A r \in 1 .. Len(OpcodeTable) :
         RowMatches(OpcodeTable[r], aluIn)
           => aluRet.out = Documented(OpcodeTable[r][7], aluIn.x, aluIn.y)

\* 0x7FFF + 0x0001 under the x+y row gave 0x8000.
OpcodeTableWitness ==
  /\ aluRet.status = "ok"
  /\ aluIn.x = 32767 /\ aluIn.y = 1
  /\ RowMatches(OpcodeTable[14], aluIn)
  /\ aluRet.out = 32768
  /\ aluRet.ng /\ ~aluRet.zr

\* C6. Zero flag: for all x, y and all 64 flag combinations, zr is true
\* exactly when the returned word is 0x0000.
ZeroFlagEquivalence ==
  aluRet.status = "ok" => (aluRet.zr <=> aluRet.out = 0)

\* Flags outside the table (zx nx zy ny f no = 0 1 0 0 1 0) gave zero with
\* non-zero inputs, and zr was set.
ZeroFlagWitness ==
  /\ aluRet.status = "ok"
  /\ aluRet.zr /\ aluRet.out = 0
  /\ aluIn.x # 0 /\ aluIn.y # 0
  /\ \A r \in 1 .. Len(OpcodeTable) : ~RowMatches(OpcodeTable[r], aluIn)

\* The function of eight inputs, by arithmetic on 16-bit naturals.
AluReference(in) ==
  LET x1 == IF in.zx THEN 0 ELSE in.x
      x2 == IF in.nx THEN AllOnes - x1 ELSE x1
      y1 == IF in.zy THEN 0 ELSE in.y
      y2 == IF in.ny THEN AllOnes - y1 ELSE y1
      r  == IF in.f THEN (x2 + y2) % Modulus ELSE BitAndInt(x2, y2)
      out == IF in.no THEN AllOnes - r ELSE r
  IN  [status |-> "ok", out |-> out, zr |-> (out = 0),
       ng |-> (out >= Modulus \div 2)]

\* C7 as stated. Each of two concurrent calls supplying all eight inputs
\* returns the function of its own inputs, under every interleaving.
ConcurrentCallsIndependent ==
  \A c \in Callers : rpc[c] = Returned => rret[c] = AluReference(rin[c])

\* C7, amended. The stored inputs are shared between calls: a call
\* supplying all eight inputs returns the function of its own inputs when
\* no other call on the same ALU is in progress while it runs.
SequentialCallsIndependent ==
  \A c \in Callers :
    (rpc[c] = Returned /\ ~overlapped) => rret[c] = AluReference(rin[c])

\* Two calls with different inputs ran one after the other.
SequentialCallsWitness ==
  /\ \A c \in Callers : rpc[c] = Returned
  /\ ~overlapped
  /\ rin[1] # rin[2]
  /\ rret[1] # rret[2]

\* C8. Mux identity: Mux.Update(a, b, sel) returns a when sel is false and
\* b when sel is true, which is OR(AND(a, NOT sel), AND(sel, b)); with a
\* channel, that value is sent with the caller's index.
MuxIdentity ==
  /\ muxVal = (IF muxIn.sel THEN muxIn.b ELSE muxIn.a)
  /\ muxVal = ((muxIn.a /\ ~muxIn.sel) \/ (muxIn.sel /\ muxIn.b))
  /\ muxIn.c => muxSent = << [Val |-> muxVal, Idx |-> muxIn.idx] >>

\* sel chose b = true over a = false.
MuxIdentityWitness ==
  /\ muxIn.sel /\ muxIn.b /\ ~muxIn.a
  /\ muxVal

\* What a call returns for the values given so far.
ExpectedOf(g) ==
  IF \E t \in AluTargets : g[t].kind = "invalid"
    THEN Failed("UninitializedSignal")
    ELSE AluReference(
           [x |-> g["TargetX"].val, y |-> g["TargetY"].val,
            zx |-> BoolOf(g["TargetZeroX"]), nx |-> BoolOf(g["TargetNegX"]),
            zy |-> BoolOf(g["TargetZeroY"]), ny |-> BoolOf(g["TargetNegY"]),
            f |-> BoolOf(g["TargetFunc"]), no |-> BoolOf(g["TargetNegOut"])])

\* C10. Held inputs: a call changes only the stored inputs its options
\* name, so each stored input is the value given by the most recent call
\* that named it, and what the call returns is the function of the eight
\* stored inputs after the overwrite.
HeldInputs ==
  /\ \A t \in AluTargets : Stored(alu, t) = given[t]
  /\ (aluPc = "idle" /\ aluRet # NoRet) => aluRet = ExpectedOf(given)

\* A call naming one input returned a result computed with seven inputs
\* held from earlier calls.
HeldInputsWitness ==
  /\ aluPc = "idle"
  /\ nopts = 1
  /\ aluRet.status = "ok"
  /\ aluRet.out = 32768

=============================================================================
